---- MODULE Spec2Model ----
(***************************************************************************)
(* The queue + listener subsystem of the incident-management repository:   *)
(* SQLiteQueue.enqueue (jobs_queue.py), the watcher loop watch_queue       *)
(* (queue_listener.py) and the corrective-action handler                   *)
(* (corrective_actions.py), over the `queue` table of QueueModel.          *)
(***************************************************************************)
EXTENDS Naturals, Sequences, FiniteSets, TLC

(***************************************************************************)
(* Python values.  A value is a record [kind, val]: a str carries its      *)
(* text, a dict carries its items as a sequence of <<key, value>> pairs in *)
(* insertion order, None is the value of kind "none".                      *)
(***************************************************************************)
PyStr(s) == [kind |-> "str", val |-> s]
PyDict(items) == [kind |-> "dict", val |-> items]
PyNone == [kind |-> "none", val |-> ""]

IsStr(v) == v.kind = "str"
IsDict(v) == v.kind = "dict"

\* key in d  (d a dict)
HasKey(d, k) == \E i \in 1..Len(d.val) : d.val[i][1] = k

\* d[k]  (d a dict that has k)
GetItem(d, k) == d.val[CHOOSE i \in 1..Len(d.val) : d.val[i][1] = k][2]

\* d.get(k): None when the key is absent
DictGet(d, k) == IF HasKey(d, k) THEN GetItem(d, k) ELSE PyNone

\* Python truthiness of a value: None, "" and {} are falsy
Truthy(v) ==
  CASE v.kind = "none" -> FALSE
    [] v.kind = "str" -> v.val # ""
    [] v.kind = "dict" -> Len(v.val) > 0
    [] OTHER -> TRUE

(***************************************************************************)
(* JSON text, as a sequence of tokens [t, s]: the punctuation tokens       *)
(* "{" "}" ":" "," and the string literal token (t = "str", s its text).   *)
(***************************************************************************)
Punct(c) == [t |-> c, s |-> ""]
StrTok(s) == [t |-> "str", s |-> s]

RECURSIVE json_dumps(_)
RECURSIVE DumpItems(_, _)
\* the members of a dict, from the i-th on, comma separated
DumpItems(items, i) ==
  IF i > Len(items) THEN <<>>
  ELSE (IF i > 1 THEN <<Punct(",")>> ELSE <<>>)
       \o <<StrTok(items[i][1]), Punct(":")>>
       \o json_dumps(items[i][2])
       \o DumpItems(items, i + 1)

\* json.dumps(v)
json_dumps(v) ==
  CASE v.kind = "str" -> <<StrTok(v.val)>>
    [] v.kind = "dict" -> <<Punct("{")>> \o DumpItems(v.val, 1) \o <<Punct("}")>>
    [] OTHER -> <<Punct("null")>>

\* The result of a parse: ok is FALSE for a JSONDecodeError; next is the
\* position after the value.
ParseError == [ok |-> FALSE, val |-> PyNone, next |-> 0]
Parsed(v, n) == [ok |-> TRUE, val |-> v, next |-> n]

RECURSIVE ParseValue(_, _)
RECURSIVE ParseMembers(_, _, _)
\* the members of an object after its "{" or after a ",": acc holds the
\* pairs read so far
ParseMembers(toks, i, acc) ==
  IF i + 1 > Len(toks) \/ toks[i].t # "str" \/ toks[i + 1].t # ":" THEN ParseError
  ELSE LET r == ParseValue(toks, i + 2) IN
       IF ~r.ok \/ r.next > Len(toks) THEN ParseError
       ELSE LET acc2 == Append(acc, <<toks[i].s, r.val>>) IN
            CASE toks[r.next].t = "}" -> Parsed(PyDict(acc2), r.next + 1)
              [] toks[r.next].t = "," -> ParseMembers(toks, r.next + 1, acc2)
              [] OTHER -> ParseError

ParseValue(toks, i) ==
  IF i > Len(toks) THEN ParseError
  ELSE CASE toks[i].t = "str" -> Parsed(PyStr(toks[i].s), i + 1)
         [] toks[i].t = "null" -> Parsed(PyNone, i + 1)
         [] toks[i].t = "{" ->
              IF i + 1 <= Len(toks) /\ toks[i + 1].t = "}"
              THEN Parsed(PyDict(<<>>), i + 2)
              ELSE ParseMembers(toks, i + 1, <<>>)
         [] OTHER -> ParseError

\* the decoder of json.loads(text): the whole text must be one value
json_decode(toks) ==
  LET r == ParseValue(toks, 1) IN
  IF r.ok /\ r.next = Len(toks) + 1 THEN r ELSE ParseError

(***************************************************************************)
(* Bounds and the task descriptions the producers hand to enqueue.         *)
(***************************************************************************)
MaxTasks == 3

\* the values uuid.uuid4() can return
UUIDs == 1..MaxTasks

\* {"task": tag, "data": data}
TaskDesc(tag, data) == PyDict(<< <<"task", PyStr(tag)>>, <<"data", data>> >>)

\* {"payload_id": "X1"}, the data of a corrective-action task
PayloadX1 == PyDict(<< <<"payload_id", PyStr("X1")>> >>)

Payloads ==
  { TaskDesc("llm_invoke", PyStr("rec")),
    TaskDesc("set_corrective_action", PayloadX1),
    TaskDesc("set_corrective_action", PyDict(<<>>)),
    TaskDesc("unrecognized_xyz", PyDict(<<>>)),
    TaskDesc("sourav-producer2", PyDict(<<>>)),
    PyStr("hello"),
    PyDict(<< <<"data", PyDict(<<>>)>> >>) }

\* the texts json.dumps produces for them, and their decoding, computed once
JsonTexts == {json_dumps(p) : p \in Payloads}
DecodedTexts == [t \in JsonTexts |-> json_decode(t)]

\* json.loads(text)
json_loads(toks) ==
  IF toks \in JsonTexts THEN DecodedTexts[toks] ELSE json_decode(toks)

\* what classifier_outputs can hold when the UPDATE runs: the sets of
\* payload_id values that have a row
ClassifierTables == {{}, {"X1"}}

\* producer threads that call SQLiteQueue.enqueue at the same time
MaxThreads == 2
Threads == 1..MaxThreads

\* rows the store client of get_stats works with, and their ids
MaxRows == 5
RowIds == 1..MaxRows

VARIABLES
  queue,         \* the queue table: rows [id, data, status] in insertion order
  pc,            \* the watcher's position in watch_queue
  message,       \* watch_queue's local `message`
  running,       \* the handler invocation in progress, if any
  exc,           \* the exception that left watch_queue, "none" while it runs
  corrected,     \* payload_ids whose classifier_outputs row holds a corrective action
  enqueued,      \* history: per enqueue call, the id returned and the data passed
  dispatchOrder, \* history: record ids in the order of their first dispatch
  dispatchCount, \* history: per id, how often it was dispatched (counted up to 2)
  handlerCalls,  \* history: the handler invocations begun, as [handler, id, arg]
  interrupted,   \* history: id of the llm_invoke record whose handling was interrupted
  accPhase,      \* accessor client: "fill" while it enqueues, "drain" once it reads
  got,           \* accessor client: the ids its get_pending_message calls returned
  ackedAt,       \* accessor client: the calls of `got` followed by mark_message_processed
  thPc,          \* per producer thread, its position in SQLiteQueue.enqueue
  thItem,        \* per producer thread, enqueue's locals item_id and data
  thResult,      \* how the enqueue call that ended last ended, and in which thread
  lock,          \* SQLiteQueue.lock: the thread holding it, 0 when it is free
  issued,        \* history: the values uuid4 has returned
  markCount,     \* mark client: per id, its mark_message_processed calls (up to 2)
  stats,         \* store client: the dict its last get_stats call returned
  batch,         \* a Producer, its batch of task descriptions and its caller
  graph,         \* the multi-agent graph: its AgentState and the node to run next
  ledger,        \* the notification ledger: the notifications and history tables
  call,          \* a call of process_corrective_action, step by step
  approval       \* the approval dialog: its position and what it has stored

watcherVars == <<pc, message, running, exc>>
histVars == <<dispatchOrder, dispatchCount, handlerCalls, interrupted>>
accVars == <<accPhase, got, ackedAt>>
prodVars == <<thPc, thItem, thResult, lock, issued>>
cliVars == <<markCount, stats>>
sysVars == <<batch, graph, ledger, call, approval>>
nonBatchVars == <<graph, ledger, call, approval>>
nonGraphVars == <<batch, ledger, call, approval>>
nonLedgerVars == <<batch, graph, call, approval>>
nonCallVars == <<batch, graph, ledger, approval>>
nonApprovalVars == <<graph, ledger, call>>
extVars == <<prodVars, cliVars, sysVars>>

vars == <<queue, watcherVars, corrected, enqueued, histVars, accVars, extVars>>

(***************************************************************************)
(* QueueModel: the store operations over the queue table.                  *)
(***************************************************************************)
NoRow == [id |-> 0, data |-> <<>>, status |-> "none"]

\* INSERT INTO queue (id, data) VALUES (?, ?): status defaults to pending
insert(q, id, data_json) ==
  Append(q, [id |-> id, data |-> data_json, status |-> "pending"])

PendingIdx(q) == {i \in 1..Len(q) : q[i].status = "pending"}

\* QueueModel.get_first_pending_item: the oldest pending row, or none
get_first_pending_item(q) ==
  IF PendingIdx(q) = {} THEN NoRow
  ELSE q[CHOOSE i \in PendingIdx(q) : \A j \in PendingIdx(q) : i <= j]

\* QueueModel.set_processed
set_processed(q, id) ==
  [i \in 1..Len(q) |->
     IF q[i].id = id THEN [q[i] EXCEPT !.status = "processed"] ELSE q[i]]

Ids(q) == {q[i].id : i \in 1..Len(q)}
PosOf(q, id) == CHOOSE i \in 1..Len(q) : q[i].id = id
RowOf(q, id) == q[PosOf(q, id)]
Status(q, id) == RowOf(q, id).status

(***************************************************************************)
(* jobs_queue.py                                                           *)
(***************************************************************************)
\* enqueue serialising data['data'] instead of data
enqueue_Unwrapped(q, item_id, data) ==
  insert(q, item_id,
         json_dumps(IF IsDict(data) /\ HasKey(data, "data")
                    THEN GetItem(data, "data") ELSE data))

\* SQLiteQueue.enqueue(data) with item_id the value uuid4 returned
enqueue(q, item_id, data) == insert(q, item_id, json_dumps(data))

\* enqueue's locals before it has set them, and a thread that has not called yet
NoItem == [id |-> 0, data |-> PyNone]
NoResult == [thread |-> 0, raised |-> FALSE, id |-> 0]

(***************************************************************************)
(* langgarph_main.py                                                       *)
(***************************************************************************)
\* the longest agents_needed list an analysis reply holds
MaxPlan == 3

\* CONFIG["tools"]: the names of the tool nodes of the graph
ToolNames == {"jira", "slack", "github"}

\* the names an analysis reply can hold: the configured tools and another one
AgentNames == ToolNames \cup {"email"}

\* the replies of the analysis LLM: text that json.loads rejects, or a JSON
\* object with agents_needed (a list) and tasks (the names that have a task)
AnalysisReplies ==
  {[ok |-> FALSE, agents_needed |-> <<>>, tasks |-> {}]} \cup
  [ok : {TRUE},
   agents_needed : UNION {[1..n -> AgentNames] : n \in 0..MaxPlan},
   tasks : SUBSET AgentNames]

\* main(), lines 254-264: the state graph.ainvoke starts with, at the entry
\* point.  tool_results and agent_tasks are dicts, held as their sets of
\* keys; `ran` is the history of the tool nodes executed and `error` the
\* node whose exception ended the run.
InitialState ==
  [ node |-> "analysis",
    next_agent |-> "analysis",
    analysis_complete |-> FALSE,
    tool_results |-> {},
    final_response |-> "",
    agents_to_execute |-> <<>>,
    agent_tasks |-> {},
    agents_executed |-> <<>>,
    ran |-> <<>>,
    error |-> "none" ]

(***************************************************************************)
(* notification_agent.py: DatabaseManager                                  *)
(***************************************************************************)
\* the history rows a run writes
MaxHistory == 4

\* NotificationStatus (35-39)
Statuses == {"pending", "sent", "failed", "retry"}

\* init_database (48-95) on a new file: the tables are empty.  The rows of a
\* table are in the order of their AUTOINCREMENT ids; `updates` is the
\* history of the status updates applied to each notification.
NoLedger == [notifications |-> <<>>, history |-> <<>>, updates |-> <<>>]

\* the payload_id values of the rows classifier_outputs may hold
ClassifierIds == {"X1", "X2", "X3"}

\* the arguments process_corrective_action is called with: dicts with a
\* payload_id that is an id, empty or None, a dict without one, and a str
CallInputs ==
  { PayloadX1,
    PyDict(<< <<"payload_id", PyStr("X2")>> >>),
    PyDict(<< <<"payload_id", PyStr("X3")>>, <<"error_message", PyStr("disk full")>> >>),
    PyDict(<< <<"payload_id", PyStr("")>> >>),
    PyDict(<< <<"payload_id", PyNone>> >>),
    PyDict(<< <<"error_message", PyStr("disk full")>> >>),
    PyStr("hello") }

\* no call of process_corrective_action is under way.  rows: the payload_ids
\* with a row in classifier_outputs; pending / committed: the rows the
\* call's transaction has changed / has committed; the flags are the
\* history of what the call did.
NoCall ==
  [ pc |-> "idle", data |-> PyNone, classifier_id |-> PyNone, rows |-> {},
    ragQueried |-> FALSE, dbOpened |-> FALSE, pending |-> {}, committed |-> {},
    rolledBack |-> FALSE, result |-> "none", raised |-> "none" ]

(***************************************************************************)
(* admin_approvals.py                                                      *)
(***************************************************************************)
\* the records of the pending list, by the text json.dumps makes of them
ApprovalRecords == {"rec1", "rec2"}

\* lines 58-60: the task description the dialog builds for a record
ApprovalTask(record) == TaskDesc("llm_invoke", PyStr(record))

\* no Approve button has been pressed.  stored: the records whose approval
\* update_by_id has stored; error: st.error was shown, at the step `at`;
\* before: the enqueue calls that had returned when the button was pressed
NoApproval ==
  [ pc |-> "idle", record |-> "", stored |-> {}, error |-> FALSE, at |-> "",
    before |-> 0 ]

\* Producer(tasks) has not been constructed yet
NoBatch == [tasks |-> <<>>, outcomes |-> <<>>, thread |-> "none", caller |-> "idle"]

\* no get_stats call has returned yet
NoStats == [valid |-> FALSE, counts |-> <<>>]

\* get_stats running SELECT status, COUNT(*) FROM queue without the GROUP BY:
\* one row, the status of some record with the count of all records
get_stats_Ungrouped(q) ==
  IF q = <<>> THEN <<>>
  ELSE [s \in {q[1].status} |-> Len(q)]

\* SQLiteQueue.get_stats(): one row per status from SELECT status, COUNT(*)
\* ... GROUP BY status, turned into the dict {row['status']: row['count']}
get_stats(q) ==
  [s \in {q[i].status : i \in 1..Len(q)} |->
     Cardinality({i \in 1..Len(q) : q[i].status = s})]

(***************************************************************************)
(* queue_listener.py                                                       *)
(***************************************************************************)
NoMessage == [found |-> FALSE, raised |-> FALSE, id |-> 0, data |-> PyNone]

\* get_pending_message reading the newest pending row instead of the oldest
get_pending_message_Newest(q) ==
  IF PendingIdx(q) = {} THEN NoMessage
  ELSE LET row == q[CHOOSE i \in PendingIdx(q) : \A j \in PendingIdx(q) : i >= j]
           r == json_loads(row.data) IN
       [found |-> TRUE, raised |-> ~r.ok, id |-> row.id, data |-> r.val]

\* get_pending_message reading the pending row of the lowest id (ORDER BY id)
get_pending_message_LowestId(q) ==
  IF PendingIdx(q) = {} THEN NoMessage
  ELSE LET row == q[CHOOSE i \in PendingIdx(q) : \A j \in PendingIdx(q) : q[i].id <= q[j].id]
           r == json_loads(row.data) IN
       [found |-> TRUE, raised |-> ~r.ok, id |-> row.id, data |-> r.val]

\* get_pending_message(): None, or {"id": row['id'], "data": json.loads(row['data'])};
\* raised when json.loads raises
get_pending_message(q) ==
  LET row == get_first_pending_item(q) IN
  IF row.id = 0 THEN NoMessage
  ELSE LET r == json_loads(row.data) IN
       [found |-> TRUE, raised |-> ~r.ok, id |-> row.id, data |-> r.val]

\* mark_message_processed flipping the status of the row
mark_message_processed_Toggle(q, message_id) ==
  [i \in 1..Len(q) |->
     IF q[i].id = message_id
     THEN [q[i] EXCEPT !.status = IF @ = "processed" THEN "pending" ELSE "processed"]
     ELSE q[i]]

\* mark_message_processed removing the row (DELETE FROM queue WHERE id = ?)
mark_message_processed_Delete(q, message_id) ==
  SelectSeq(q, LAMBDA r : r.id # message_id)

\* mark_message_processed running its UPDATE without the WHERE id = ?
\* mark_message_processed that also marks the row after the one it is given
mark_message_processed_NextToo(q, message_id) ==
  [i \in 1..Len(q) |->
     IF q[i].id = message_id \/ (i > 1 /\ q[i - 1].id = message_id)
       THEN [q[i] EXCEPT !.status = "processed"] ELSE q[i]]

mark_message_processed_NoWhere(q, message_id) ==
  [i \in 1..Len(q) |-> [q[i] EXCEPT !.status = "processed"]]

\* mark_message_processed(message_id)
mark_message_processed(q, message_id) == set_processed(q, message_id)

\* message['data']['task'] and the string concatenation of line 55 succeed
TaskReadable(m) ==
  /\ IsDict(m.data)
  /\ HasKey(m.data, "task")
  /\ IsStr(GetItem(m.data, "task"))

\* the exception line 55 raises when they do not
Line55Error(m) ==
  IF IsDict(m.data) /\ ~HasKey(m.data, "task") THEN "KeyError: 'task'" ELSE "TypeError"

TaskOf(m) == GetItem(m.data, "task").val

NoHandler == [handler |-> "none", id |-> 0, arg |-> PyNone]

Count(c, id) == [c EXCEPT ![id] = IF @ < 2 THEN @ + 1 ELSE @]

\* history of the dispatch of m
NoteDispatch(m) ==
  /\ dispatchOrder' = IF dispatchCount[m.id] = 0
                      THEN Append(dispatchOrder, m.id) ELSE dispatchOrder
  /\ dispatchCount' = Count(dispatchCount, m.id)

Init ==
  /\ queue = <<>>
  /\ pc = "poll"
  /\ message = NoMessage
  /\ running = NoHandler
  /\ exc = "none"
  /\ corrected = {}
  /\ enqueued = <<>>
  /\ dispatchOrder = <<>>
  /\ dispatchCount = [u \in UUIDs |-> 0]
  /\ handlerCalls = {}
  /\ interrupted = 0
  /\ accPhase = "fill"
  /\ got = <<>>
  /\ ackedAt = {}
  /\ thPc = [t \in Threads |-> "idle"]
  /\ thItem = [t \in Threads |-> NoItem]
  /\ thResult = NoResult
  /\ lock = 0
  /\ issued = {}
  /\ markCount = [u \in UUIDs |-> 0]
  /\ stats = NoStats
  /\ batch = NoBatch
  /\ graph = InitialState
  /\ ledger = NoLedger
  /\ call = NoCall
  /\ approval = NoApproval

\* one call of SQLiteQueue.enqueue(data), uuid4 returning item_id
EnqueueCall(item_id, data) ==
  /\ Len(queue) < MaxTasks
  /\ item_id \notin Ids(queue)
  /\ queue' = enqueue(queue, item_id, data)
  /\ enqueued' = Append(enqueued, [id |-> item_id, data |-> data])

\* A producer enqueues one value (jobs_queue.py enqueue)
Enqueue ==
  /\ \E data \in Payloads : \E item_id \in UUIDs : EnqueueCall(item_id, data)
  /\ UNCHANGED <<watcherVars, corrected, histVars, accVars, extVars>>

\* the loop returning instead of sleeping when no message is pending
Poll_ExitWhenEmpty ==
  /\ pc = "poll"
  /\ LET m == get_pending_message(queue) IN
       /\ message' = IF m.raised THEN NoMessage ELSE m
       /\ pc' = IF m.raised THEN "terminated"
                ELSE IF m.found THEN "dispatch" ELSE "terminated"
       /\ exc' = IF m.raised THEN "JSONDecodeError" ELSE exc
  /\ UNCHANGED <<queue, running, corrected, enqueued, histVars, accVars, extVars>>

\* lines 49-54: fetch the first pending message; sleep when there is none
Poll ==
  /\ pc = "poll"
  /\ LET m == get_pending_message(queue) IN
       /\ message' = IF m.raised THEN NoMessage ELSE m
       /\ pc' = IF m.raised THEN "terminated"
                ELSE IF m.found THEN "dispatch" ELSE "idle_sleep"
       /\ exc' = IF m.raised THEN "JSONDecodeError" ELSE exc
  /\ UNCHANGED <<queue, running, corrected, enqueued, histVars, accVars, extVars>>

\* lines 53-54: await asyncio.sleep(POLL_INTERVAL); continue
IdleSleep ==
  /\ pc = "idle_sleep"
  /\ pc' = "poll"
  /\ UNCHANGED <<queue, message, running, exc, corrected, enqueued, histVars, accVars, extVars>>

\* line 55 raises (TypeError / KeyError): the exception leaves watch_queue
DispatchRaise ==
  /\ pc = "dispatch"
  /\ ~TaskReadable(message)
  /\ pc' = "terminated"
  /\ exc' = Line55Error(message)
  /\ message' = NoMessage
  /\ UNCHANGED <<queue, running, corrected, enqueued, histVars, accVars, extVars>>

\* the llm_invoke branch marking the message processed before the handler runs
LlmBranchQueue_AckFirst(q, id) == mark_message_processed(q, id)

\* the queue after the llm_invoke branch has started its handler (lines 57-59)
LlmBranchQueue(q, id) == q

\* the llm_invoke branch starting Transporter.process as a task of the event
\* loop (asyncio.create_task) and going on to line 74 without awaiting it
DispatchLlm_NoAwait ==
  /\ pc = "dispatch"
  /\ TaskReadable(message)
  /\ TaskOf(message) = "llm_invoke"
  /\ NoteDispatch(message)
  /\ IF HasKey(message.data, "data")
     THEN /\ running' = [handler |-> "Transporter.process", id |-> message.id,
                         arg |-> GetItem(message.data, "data")]
          /\ handlerCalls' = handlerCalls \cup {running'}
          /\ queue' = LlmBranchQueue(queue, message.id)
          /\ pc' = "sleep"
          /\ UNCHANGED <<exc, message>>
     ELSE /\ pc' = "terminated"
          /\ exc' = "KeyError: 'data'"
          /\ message' = NoMessage
          /\ UNCHANGED <<running, handlerCalls, queue>>
  /\ UNCHANGED <<corrected, enqueued, interrupted, accVars, extVars>>

\* lines 57-59: await Transporter().process(message['data']['data'])
DispatchLlm ==
  /\ pc = "dispatch"
  /\ TaskReadable(message)
  /\ TaskOf(message) = "llm_invoke"
  /\ NoteDispatch(message)
  /\ IF HasKey(message.data, "data")
     THEN /\ running' = [handler |-> "Transporter.process", id |-> message.id,
                         arg |-> GetItem(message.data, "data")]
          /\ handlerCalls' = handlerCalls \cup {running'}
          /\ queue' = LlmBranchQueue(queue, message.id)
          /\ pc' = "llm_handling"
          /\ UNCHANGED <<exc, message>>
     ELSE /\ pc' = "terminated"
          /\ exc' = "KeyError: 'data'"
          /\ message' = NoMessage
          /\ UNCHANGED <<running, handlerCalls, queue>>
  /\ UNCHANGED <<corrected, enqueued, interrupted, accVars, extVars>>

\* the awaited Transporter.process returns: line 74
LlmReturn ==
  /\ pc = "llm_handling"
  /\ pc' = "sleep"
  /\ running' = NoHandler
  /\ interrupted' = 0
  /\ UNCHANGED <<queue, message, exc, corrected, enqueued, dispatchOrder,
                 dispatchCount, handlerCalls, accVars, extVars>>

\* the awaited Transporter.process raises: nothing in watch_queue catches it
LlmRaise ==
  /\ pc = "llm_handling"
  /\ pc' = "terminated"
  /\ exc' = "HandlerError"
  /\ message' = NoMessage
  /\ running' = NoHandler
  /\ interrupted' = 0
  /\ UNCHANGED <<queue, corrected, enqueued, dispatchOrder,
                 dispatchCount, handlerCalls, accVars, extVars>>

(***************************************************************************)
(* corrective_actions.py                                                   *)
(***************************************************************************)
\* update_corrective_action_db: the UPDATE ... WHERE payload_id = ? changes a
\* row and is committed, or changes none, raises and is rolled back
update_corrective_action_db(corr, classifier_id, rows) ==
  IF classifier_id \in rows
  THEN [raised |-> FALSE, corrected |-> corr \cup {classifier_id}]
  ELSE [raised |-> TRUE, corrected |-> corr]

\* process_corrective_action(data): every exception is caught and turned into
\* False.  ragOk is whether get_corrective_action_from_rag returns, rows the
\* payload_ids that have a row in classifier_outputs.
process_corrective_action(data, ragOk, rows, corr) ==
  IF ~IsDict(data) THEN [result |-> FALSE, corrected |-> corr]
  ELSE LET classifier_id == DictGet(data, "payload_id") IN
       IF ~Truthy(classifier_id) \/ ~ragOk THEN [result |-> FALSE, corrected |-> corr]
       ELSE LET u == update_corrective_action_db(corr, classifier_id.val, rows) IN
            [result |-> ~u.raised, corrected |-> u.corrected]

\* the set_corrective_action branch calling the handler without marking first
CorrectiveBranchQueue_NoAck(q, id) == q

\* the queue when handle_message is called in the set_corrective_action
\* branch (line 64 runs before line 65)
CorrectiveBranchQueue(q, id) == mark_message_processed(q, id)

\* handle_message passing the message it got on to process_corrective_action
HandlerArg_Wrapper(data) == data

\* the argument handle_message passes to process_corrective_action (line 176),
\* given the message['data'] it got from line 65
HandlerArg(data) == GetItem(data, "data")

\* line 65: handle_message(message['data']), the decoded payload of the record
HandleMessageCall(m) == [handler |-> "handle_message", id |-> m.id, arg |-> m.data]

\* lines 63-65: mark_message_processed(message["id"]); handle_message(message['data']),
\* which calls process_corrective_action(message['data']) (corrective_actions.py 175-176)
DispatchCorrective ==
  /\ pc = "dispatch"
  /\ TaskReadable(message)
  /\ TaskOf(message) = "set_corrective_action"
  /\ NoteDispatch(message)
  /\ queue' = CorrectiveBranchQueue(queue, message.id)
  /\ IF HasKey(message.data, "data")
     THEN /\ running' = [handler |-> "process_corrective_action", id |-> message.id,
                         arg |-> HandlerArg(message.data)]
          /\ handlerCalls' = handlerCalls \cup {HandleMessageCall(message), running'}
          /\ pc' = "ca_handling"
          /\ UNCHANGED <<exc, message>>
     ELSE /\ handlerCalls' = handlerCalls \cup {HandleMessageCall(message)}
          /\ pc' = "terminated"
          /\ exc' = "KeyError: 'data'"
          /\ message' = NoMessage
          /\ UNCHANGED running
  /\ UNCHANGED <<corrected, enqueued, interrupted, accVars, extVars>>

\* process_corrective_action runs to its return; lines 66 and 74 follow
CorrectiveReturn ==
  /\ pc = "ca_handling"
  /\ \E ragOk \in BOOLEAN : \E rows \in ClassifierTables :
       corrected' =
         process_corrective_action(running.arg, ragOk, rows, corrected).corrected
  /\ running' = NoHandler
  /\ pc' = "sleep"
  /\ UNCHANGED <<queue, message, exc, enqueued, histVars, accVars, extVars>>

\* the queue after the 'sourav-producer2' branch (lines 68-69)
SouravBranchQueue(q, id) == q

\* lines 68-69: print("Sourav Block 2")
DispatchSourav ==
  /\ pc = "dispatch"
  /\ TaskReadable(message)
  /\ TaskOf(message) = "sourav-producer2"
  /\ NoteDispatch(message)
  /\ queue' = SouravBranchQueue(queue, message.id)
  /\ pc' = "sleep"
  /\ UNCHANGED <<message, running, exc, corrected, enqueued, handlerCalls,
                 interrupted, accVars, extVars>>

\* the queue after the else branch (lines 71-72)
ElseBranchQueue(q, id) == mark_message_processed(q, id)

\* lines 71-72: any other tag is marked processed
DispatchElse ==
  /\ pc = "dispatch"
  /\ TaskReadable(message)
  /\ TaskOf(message) \notin {"llm_invoke", "set_corrective_action", "sourav-producer2"}
  /\ NoteDispatch(message)
  /\ queue' = ElseBranchQueue(queue, message.id)
  /\ pc' = "sleep"
  /\ UNCHANGED <<message, running, exc, corrected, enqueued, handlerCalls,
                 interrupted, accVars, extVars>>

\* line 74: await asyncio.sleep(POLL_INTERVAL), then the next iteration
Sleep ==
  /\ pc = "sleep"
  /\ pc' = "poll"
  /\ UNCHANGED <<queue, message, running, exc, corrected, enqueued, histVars, accVars, extVars>>

WatcherRunning == pc \notin {"terminated", "stopped"}

\* the message is an llm_invoke task whose handler has been started
LlmInFlight ==
  /\ pc \in {"llm_handling", "sleep"}
  /\ TaskReadable(message)
  /\ TaskOf(message) = "llm_invoke"

\* The watcher process is cancelled or killed from outside (asyncio.run, line 77);
\* its locals are gone with it, as they are when an exception ends watch_queue
Interrupt ==
  /\ WatcherRunning
  /\ pc' = "stopped"
  /\ message' = NoMessage
  /\ running' = NoHandler
  /\ interrupted' = IF LlmInFlight THEN message.id ELSE interrupted
  /\ UNCHANGED <<queue, exc, corrected, enqueued, dispatchOrder,
                 dispatchCount, handlerCalls, accVars, extVars>>

\* The watcher is started again: watch_queue from its first line
Restart ==
  /\ ~WatcherRunning
  /\ pc' = "poll"
  /\ exc' = "none"
  /\ UNCHANGED <<queue, message, running, corrected, enqueued, histVars, accVars, extVars>>

Next ==
  \/ Enqueue
  \/ Poll
  \/ IdleSleep
  \/ DispatchRaise
  \/ DispatchLlm
  \/ LlmReturn
  \/ LlmRaise
  \/ DispatchCorrective
  \/ CorrectiveReturn
  \/ DispatchSourav
  \/ DispatchElse
  \/ Sleep
  \/ Interrupt
  \/ Restart

\* producers, the watcher, and its cancellation and restart
Spec == Init /\ [][Next]_vars

(***************************************************************************)
(* A run in which the producers enqueue task descriptions with the tags of *)
(* the handler registry or an unregistered tag, no handler raises, and the *)
(* watcher is never cancelled and is scheduled fairly (the event loop      *)
(* resumes it after every sleep and every awaited handler).  No            *)
(* 'sourav-producer2' task is enqueued, so that branch is never taken.     *)
(***************************************************************************)
RunPayloads ==
  { TaskDesc("llm_invoke", PyStr("rec")),
    TaskDesc("set_corrective_action", PayloadX1),
    TaskDesc("set_corrective_action", PyDict(<<>>)),
    TaskDesc("unrecognized_xyz", PyDict(<<>>)) }

\* A producer enqueues one task description {"task": ..., "data": ...}
EnqueueTask ==
  /\ \E data \in RunPayloads : \E item_id \in UUIDs : EnqueueCall(item_id, data)
  /\ UNCHANGED <<watcherVars, corrected, histVars, accVars, extVars>>

WatcherStep ==
  \/ Poll
  \/ IdleSleep
  \/ DispatchLlm
  \/ LlmReturn
  \/ DispatchCorrective
  \/ CorrectiveReturn
  \/ DispatchElse
  \/ Sleep

NextRun == EnqueueTask \/ WatcherStep

FairSpec == Init /\ [][NextRun]_vars /\ WF_vars(WatcherStep)

(***************************************************************************)
(* A client of the accessor functions of queue_listener.py: it enqueues,   *)
(* then calls get_pending_message and mark_message_processed itself.       *)
(***************************************************************************)
MaxGets == MaxTasks + 2

LastGot == IF got = <<>> THEN 0 ELSE got[Len(got)]

\* what the client enqueues: a task description and a bare string
AccPayloads == {TaskDesc("unrecognized_xyz", PyDict(<<>>)), PyStr("hello")}

AccEnqueue ==
  /\ accPhase = "fill"
  /\ \E data \in AccPayloads : \E item_id \in UUIDs : EnqueueCall(item_id, data)
  /\ UNCHANGED <<watcherVars, corrected, histVars, accVars, extVars>>

\* get_pending_message() (lines 32-38); 0 stands for None
AccGet ==
  /\ Len(got) < MaxGets
  /\ accPhase' = "drain"
  /\ got' = Append(got, get_pending_message(queue).id)
  /\ UNCHANGED <<queue, watcherVars, corrected, enqueued, histVars, ackedAt, extVars>>

\* mark_message_processed(id) (lines 40-42) on the id the last call returned
AccMark ==
  /\ LastGot # 0
  /\ queue' = mark_message_processed(queue, LastGot)
  /\ ackedAt' = ackedAt \cup {Len(got)}
  /\ UNCHANGED <<watcherVars, corrected, enqueued, histVars, accPhase, got, extVars>>

AccNext == AccEnqueue \/ AccGet \/ AccMark

AccSpec == Init /\ [][AccNext]_vars

(***************************************************************************)
(* The watcher and a producer of the tasks whose branch marks the record   *)
(* (set_corrective_action and an unregistered tag), together with direct   *)
(* calls of mark_message_processed on any stored id.                       *)
(***************************************************************************)
MarkedPayloads ==
  { TaskDesc("set_corrective_action", PayloadX1),
    TaskDesc("unrecognized_xyz", PyDict(<<>>)) }

EnqueueMarked ==
  /\ \E data \in MarkedPayloads : \E item_id \in UUIDs : EnqueueCall(item_id, data)
  /\ UNCHANGED <<watcherVars, corrected, histVars, accVars, extVars>>

\* mark_message_processed(id) called by a client for a stored id
MarkCall ==
  /\ \E id \in Ids(queue) : queue' = mark_message_processed(queue, id)
  /\ UNCHANGED <<watcherVars, corrected, enqueued, histVars, accVars, extVars>>

AllNext ==
  \/ EnqueueMarked
  \/ Poll
  \/ IdleSleep
  \/ DispatchCorrective
  \/ CorrectiveReturn
  \/ DispatchElse
  \/ Sleep
  \/ MarkCall

AllSpec == Init /\ [][AllNext]_vars

(***************************************************************************)
(* The watcher over a store whose operations can fail: the database is     *)
(* locked or unreachable when get_first_pending_item or set_processed      *)
(* runs.  The store raises; nothing in get_pending_message,                *)
(* mark_message_processed or watch_queue catches the exception.            *)
(***************************************************************************)
\* line 49: get_pending_message() raises the store's error
PollStorageError ==
  /\ pc = "poll"
  /\ pc' = "terminated"
  /\ exc' = "StorageError"
  /\ message' = NoMessage
  /\ UNCHANGED <<queue, running, corrected, enqueued, histVars, accVars, extVars>>

\* the branch of the message calls mark_message_processed (lines 64 and 72)
MarksRecord(m) ==
  TaskReadable(m) /\ TaskOf(m) \notin {"llm_invoke", "sourav-producer2"}

\* lines 64, 72: mark_message_processed(message["id"]) raises the store's
\* error; the status is not written and no handler has been called
MarkStorageError ==
  /\ pc = "dispatch"
  /\ MarksRecord(message)
  /\ NoteDispatch(message)
  /\ pc' = "terminated"
  /\ exc' = "StorageError"
  /\ message' = NoMessage
  /\ UNCHANGED <<queue, running, corrected, enqueued, handlerCalls, interrupted,
                 accVars, extVars>>

StorageNext ==
  \/ EnqueueTask
  \/ WatcherStep
  \/ PollStorageError
  \/ MarkStorageError
  \/ Restart

StorageSpec == Init /\ [][StorageNext]_vars

(***************************************************************************)
(* Producer threads calling SQLiteQueue.enqueue on one SQLiteQueue at the  *)
(* same time, while the watcher marks records processed.  A thread is      *)
(* "idle" outside enqueue, at "insert" while its raw_execute of line 28 is *)
(* in progress, and at "return" between the INSERT and line 30.            *)
(***************************************************************************)
\* the task description a producer thread was started with: the first
\* thread enqueues llm_invoke tasks, the others corrective-action tasks
ThreadPayload(t) ==
  IF t = 1 THEN TaskDesc("llm_invoke", PyStr("rec"))
  ELSE TaskDesc("set_corrective_action", PayloadX1)

\* uuid.uuid4(): a value it has not returned before
uuid4(used) == UUIDs \ used

\* lines 25-28: item_id and data_json are computed and raw_execute is entered;
\* self.lock is not acquired
EnqBegin ==
  /\ \E t \in Threads : \E item_id \in uuid4(issued) :
       /\ thPc[t] = "idle"
       /\ thPc' = [thPc EXCEPT ![t] = "insert"]
       /\ thItem' = [thItem EXCEPT ![t] = [id |-> item_id, data |-> ThreadPayload(t)]]
       /\ issued' = issued \cup {item_id}
  /\ UNCHANGED <<queue, watcherVars, corrected, enqueued, histVars, accVars, sysVars,
                 thResult, lock, cliVars>>

\* line 28: the INSERT takes effect; the table refuses a second row of an id
EnqInsertOk ==
  /\ \E t \in Threads :
       /\ thPc[t] = "insert"
       /\ thItem[t].id \notin Ids(queue)
       /\ queue' = enqueue(queue, thItem[t].id, thItem[t].data)
       /\ thPc' = [thPc EXCEPT ![t] = "return"]
  /\ UNCHANGED <<watcherVars, corrected, enqueued, histVars, accVars, sysVars,
                 thItem, thResult, lock, issued, cliVars>>

\* enqueue returning the id of the row the shared connection inserted last
EnqueueReturn_LastRow(q, item_id) == q[Len(q)].id

\* line 30: return item_id
EnqueueReturn(q, item_id) == item_id

EnqReturn ==
  /\ \E t \in Threads :
       /\ thPc[t] = "return"
       /\ LET id == EnqueueReturn(queue, thItem[t].id) IN
            /\ thResult' = [thread |-> t, raised |-> FALSE, id |-> id]
            /\ enqueued' = Append(enqueued, [id |-> id, data |-> thItem[t].data])
       /\ thPc' = [thPc EXCEPT ![t] = "idle"]
       /\ thItem' = [thItem EXCEPT ![t] = NoItem]
  /\ UNCHANGED <<queue, watcherVars, corrected, histVars, accVars, sysVars,
                 lock, issued, cliVars>>

\* enqueue catching the store's error and returning item_id all the same
EnqueueFailure_Swallowed(t, item_id) == [thread |-> t, raised |-> FALSE, id |-> item_id]

\* raw_execute raises at line 28: the exception leaves enqueue, line 30 is
\* not reached
EnqueueFailure(t, item_id) == [thread |-> t, raised |-> TRUE, id |-> 0]

\* line 28: the INSERT fails in the store and writes nothing
EnqInsertFail ==
  /\ \E t \in Threads :
       /\ thPc[t] = "insert"
       /\ thResult' = EnqueueFailure(t, thItem[t].id)
       /\ thPc' = [thPc EXCEPT ![t] = "idle"]
       /\ thItem' = [thItem EXCEPT ![t] = NoItem]
  /\ UNCHANGED <<queue, watcherVars, corrected, enqueued, histVars, accVars, sysVars,
                 lock, issued, cliVars>>

\* the watcher marks the record it fetched, the first pending one (lines 49, 72)
WatcherMark ==
  /\ PendingIdx(queue) # {}
  /\ queue' = mark_message_processed(queue, get_first_pending_item(queue).id)
  /\ UNCHANGED <<watcherVars, corrected, enqueued, histVars, accVars, extVars>>

ProdNext ==
  \/ EnqBegin
  \/ EnqInsertOk
  \/ EnqReturn
  \/ EnqInsertFail
  \/ WatcherMark

ProdSpec == Init /\ [][ProdNext]_vars

(***************************************************************************)
(* A client of the store: it enqueues, marks records processed and reads   *)
(* the counts with SQLiteQueue.get_stats.  `stats` holds the dict of its   *)
(* last get_stats call for as long as the table has not been written       *)
(* since.                                                                  *)
(***************************************************************************)
CliPayload == TaskDesc("unrecognized_xyz", PyDict(<<>>))

CliEnqueue ==
  /\ Len(queue) < MaxRows
  /\ \E item_id \in RowIds \ Ids(queue) :
       /\ queue' = enqueue(queue, item_id, CliPayload)
       /\ enqueued' = Append(enqueued, [id |-> item_id, data |-> CliPayload])
  /\ stats' = NoStats
  /\ UNCHANGED <<watcherVars, corrected, histVars, accVars, sysVars, prodVars, markCount>>

CliMark ==
  /\ \E id \in Ids(queue) : queue' = mark_message_processed(queue, id)
  /\ stats' = NoStats
  /\ UNCHANGED <<watcherVars, corrected, enqueued, histVars, accVars, sysVars, prodVars,
                 markCount>>

\* stats = queue.get_stats()
CliStats ==
  /\ stats' = [valid |-> TRUE, counts |-> get_stats(queue)]
  /\ UNCHANGED <<queue, watcherVars, corrected, enqueued, histVars, accVars, sysVars,
                 prodVars, markCount>>

CliNext == CliEnqueue \/ CliMark \/ CliStats

ClientSpec == Init /\ [][CliNext]_vars

(***************************************************************************)
(* A client that calls mark_message_processed on stored ids any number of  *)
(* times, a producer enqueueing beside it.                                 *)
(***************************************************************************)
\* mark_message_processed(id) (lines 40-42), the calls counted per id
CountedMark ==
  /\ \E id \in Ids(queue) :
       /\ queue' = mark_message_processed(queue, id)
       /\ markCount' = Count(markCount, id)
  /\ UNCHANGED <<watcherVars, corrected, enqueued, histVars, accVars, sysVars, prodVars, stats>>

MarkNext == EnqueueMarked \/ CountedMark

MarkSpec == Init /\ [][MarkNext]_vars

(***************************************************************************)
(* task_queue.producer.Producer as approval_dialog uses it: constructed    *)
(* with a batch of task descriptions, start() runs the batch in a thread   *)
(* of its own, join() blocks the caller until the thread has ended.  The   *)
(* thread enqueues the task descriptions in order and records the outcome  *)
(* of each; the watcher marks records beside it.                           *)
(***************************************************************************)
BatchTasks ==
  { TaskDesc("llm_invoke", PyStr("rec")),
    TaskDesc("set_corrective_action", PayloadX1) }

\* the batches a Producer is constructed with
Batches == UNION {[1..n -> BatchTasks] : n \in 1..MaxTasks}

\* admin_approvals.py 58-63: Producer(tasks), start(), and the call of join()
ProducerStart ==
  /\ batch.caller = "idle"
  /\ \E tasks \in Batches :
       batch' = [tasks |-> tasks, outcomes |-> <<>>, thread |-> "running",
                 caller |-> "join"]
  /\ UNCHANGED <<queue, watcherVars, corrected, enqueued, histVars, accVars,
                 prodVars, cliVars, nonBatchVars>>

\* the task description the thread handles next
NextTask(b) == b.tasks[Len(b.outcomes) + 1]

\* the thread enqueues its next task description: SQLiteQueue.enqueue returns
ProducerPutOk ==
  /\ batch.thread = "running"
  /\ Len(batch.outcomes) < Len(batch.tasks)
  /\ \E item_id \in uuid4(issued) :
       /\ item_id \notin Ids(queue)
       /\ queue' = enqueue(queue, item_id, NextTask(batch))
       /\ enqueued' = Append(enqueued, [id |-> item_id, data |-> NextTask(batch)])
       /\ issued' = issued \cup {item_id}
       /\ batch' = [batch EXCEPT !.outcomes = Append(@, [ok |-> TRUE, id |-> item_id])]
  /\ UNCHANGED <<watcherVars, corrected, histVars, accVars, thPc, thItem, thResult,
                 lock, cliVars, nonBatchVars>>

\* a Producer that stops at the first failure and raises it in its caller
AfterFailure_FailFast(b) ==
  [b EXCEPT !.outcomes = Append(@, [ok |-> FALSE, id |-> 0]),
            !.thread = "finished", !.caller = "raised"]

\* the Producer after json.dumps or the insert has failed for its next task
\* description: the failure is recorded and the thread goes on
AfterFailure(b) ==
  [b EXCEPT !.outcomes = Append(@, [ok |-> FALSE, id |-> 0])]

\* SQLiteQueue.enqueue raises for the next task description (jobs_queue.py 26, 28)
ProducerPutFail ==
  /\ batch.thread = "running"
  /\ Len(batch.outcomes) < Len(batch.tasks)
  /\ batch' = AfterFailure(batch)
  /\ UNCHANGED <<queue, watcherVars, corrected, enqueued, histVars, accVars,
                 prodVars, cliVars, nonBatchVars>>

\* the thread has gone through its batch and ends
ProducerEnd ==
  /\ batch.thread = "running"
  /\ Len(batch.outcomes) = Len(batch.tasks)
  /\ batch' = [batch EXCEPT !.thread = "finished"]
  /\ UNCHANGED <<queue, watcherVars, corrected, enqueued, histVars, accVars,
                 prodVars, cliVars, nonBatchVars>>

\* join() returning without waiting for the thread
JoinMayReturn_NoWait(b) == TRUE

\* join() returns once the thread has ended
JoinMayReturn(b) == b.thread = "finished"

\* admin_approvals.py 63: producer1.join() returns
JoinReturn ==
  /\ batch.caller = "join"
  /\ JoinMayReturn(batch)
  /\ batch' = [batch EXCEPT !.caller = "returned"]
  /\ UNCHANGED <<queue, watcherVars, corrected, enqueued, histVars, accVars,
                 prodVars, cliVars, nonBatchVars>>

BatchNext ==
  \/ ProducerStart
  \/ ProducerPutOk
  \/ ProducerPutFail
  \/ ProducerEnd
  \/ JoinReturn
  \/ WatcherMark

BatchSpec == Init /\ [][BatchNext]_vars

(***************************************************************************)
(* approval_dialog of admin_approvals.py: the Approve button of the dialog *)
(* (lines 35-71), with the Producer above for lines 58-63.                 *)
(***************************************************************************)
\* line 35: the button is pressed in the dialog of a record of the pending
\* list; the list is cached (line 12), so a record can be approved again
ApproveClick ==
  /\ approval.pc \in {"idle", "returned"}
  /\ \E record \in ApprovalRecords :
       approval' = [approval EXCEPT !.pc = "update", !.record = record,
                                    !.error = FALSE, !.at = "",
                                    !.before = Len(enqueued)]
  /\ batch' = NoBatch
  /\ UNCHANGED <<queue, watcherVars, corrected, enqueued, histVars, accVars,
                 prodVars, cliVars, nonApprovalVars>>

\* line 41: classifier_output.update_by_id(...) returns: the approval is stored
ApprovalUpdateOk ==
  /\ approval.pc = "update"
  /\ approval' = [approval EXCEPT !.pc = "prepare", !.stored = @ \cup {approval.record}]
  /\ UNCHANGED <<queue, watcherVars, corrected, enqueued, histVars, accVars,
                 prodVars, cliVars, batch, nonApprovalVars>>

\* a dialog that goes on to the producer when the update has raised
AfterRaise_GoOn(a, at) ==
  IF at = "update" THEN [a EXCEPT !.pc = "prepare"]
  ELSE [a EXCEPT !.pc = "returned", !.error = TRUE, !.at = at]

\* lines 65-68: `except Exception` shows the error; the dialog returns
AfterRaise(a, at) == [a EXCEPT !.pc = "returned", !.error = TRUE, !.at = at]

\* line 41: update_by_id raises
ApprovalUpdateRaise ==
  /\ approval.pc = "update"
  /\ approval' = AfterRaise(approval, "update")
  /\ UNCHANGED <<queue, watcherVars, corrected, enqueued, histVars, accVars,
                 prodVars, cliVars, batch, nonApprovalVars>>

\* lines 44-52: record.to_dict(), st.session_state.id or json.dumps raises
\* after the approval was stored
ApprovalPrepareRaise ==
  /\ approval.pc = "prepare"
  /\ approval' = AfterRaise(approval, "prepare")
  /\ UNCHANGED <<queue, watcherVars, corrected, enqueued, histVars, accVars,
                 prodVars, cliVars, batch, nonApprovalVars>>

\* lines 58-60: the list the Producer is constructed with
DialogTasks(record) == <<ApprovalTask(record)>>

\* lines 58-63: Producer([...]), producer1.start(), and the call of join()
ApprovalProducerStart ==
  /\ approval.pc = "prepare"
  /\ approval' = [approval EXCEPT !.pc = "producer"]
  /\ batch' = [tasks |-> DialogTasks(approval.record), outcomes |-> <<>>,
               thread |-> "running", caller |-> "join"]
  /\ UNCHANGED <<queue, watcherVars, corrected, enqueued, histVars, accVars,
                 prodVars, cliVars, nonApprovalVars>>

\* line 63 has returned: the try block is through and the dialog returns
ApprovalReturn ==
  /\ approval.pc = "producer"
  /\ batch.caller = "returned"
  /\ approval' = [approval EXCEPT !.pc = "returned"]
  /\ UNCHANGED <<queue, watcherVars, corrected, enqueued, histVars, accVars,
                 prodVars, cliVars, batch, nonApprovalVars>>

ApprovalNext ==
  \/ ApproveClick
  \/ ApprovalUpdateOk
  \/ ApprovalUpdateRaise
  \/ ApprovalPrepareRaise
  \/ ApprovalProducerStart
  \/ ProducerPutOk
  \/ ProducerPutFail
  \/ ProducerEnd
  \/ JoinReturn
  \/ ApprovalReturn

ApprovalSpec == Init /\ [][ApprovalNext]_vars

(***************************************************************************)
(* The multi-agent graph of langgarph_main.py: the analysis node, one node *)
(* per configured tool, and the router on the edges out of analysis.       *)
(***************************************************************************)
\* the elements of a list
Elems(seq) == {seq[i] : i \in 1..Len(seq)}

\* the node `by` raised: graph.ainvoke ends with the exception
Raise(state, by) == [state EXCEPT !.node = "raised", !.error = by]

\* router (233-235) over the conditional edges of analysis (237-241): the
\* next node is END for "end", the tool node of that name, and a name that
\* is no key of the edge map ends the run with an error
router(state) ==
  IF state.next_agent = "end" THEN [state EXCEPT !.node = "END"]
  ELSE IF state.next_agent \in ToolNames
         THEN [state EXCEPT !.node = state.next_agent]
         ELSE Raise(state, "router")

\* line 163: the agents of the plan that have not been executed, in plan order
remaining(state) ==
  SelectSeq(state.agents_to_execute,
            LAMBDA a : a \notin Elems(state.agents_executed))

\* line 164: `if not remaining`
Finish(state, rem) == rem = <<>>

\* an analysis node that routes to the last remaining agent
PickNext_Last(rem) == rem[Len(rem)]

\* line 171: remaining[0]
PickNext(rem) == rem[1]

\* AnalysisAgent.execute with analysis_complete set (161-174), then the router
AnalysisRoute(state) ==
  LET rem == remaining(state) IN
  IF Finish(state, rem)
    THEN router([state EXCEPT !.final_response = "All tasks completed successfully.",
                              !.next_agent = "end"])
    ELSE LET routed == [state EXCEPT !.next_agent = PickNext(rem)] IN
         IF PickNext(rem) \in state.agent_tasks
           THEN router(routed)
           ELSE Raise(routed, "analysis")          \* line 173: KeyError

\* an analysis node that plans again on every visit
Planned_Never(state) == FALSE

\* line 162: `if state["analysis_complete"]`
Planned(state) == state.analysis_complete

\* AnalysisAgent.execute, the initial analysis (177-215), then the router
AnalysisInitial(state, reply) ==
  IF ~reply.ok THEN Raise(state, "analysis")       \* line 200: json.loads raises
  ELSE
    LET plan == [state EXCEPT !.agents_to_execute = reply.agents_needed,
                              !.agent_tasks = reply.tasks,
                              !.agents_executed = <<>>,
                              !.analysis_complete = TRUE] IN
    IF reply.agents_needed = <<>> THEN Raise(plan, "analysis")      \* line 211: IndexError
    ELSE
      LET routed == [plan EXCEPT !.next_agent = reply.agents_needed[1]] IN
      IF reply.agents_needed[1] \in reply.tasks
        THEN router(routed)
        ELSE Raise(routed, "analysis")             \* line 213: KeyError

\* the analysis node runs
AnalysisExecute ==
  /\ graph.node = "analysis"
  /\ IF Planned(graph)
       THEN graph' = AnalysisRoute(graph)
       ELSE \E reply \in AnalysisReplies : graph' = AnalysisInitial(graph, reply)
  /\ UNCHANGED <<queue, watcherVars, corrected, enqueued, histVars, accVars,
                 prodVars, cliVars, nonGraphVars>>

\* the history of the tool nodes executed, kept up to MaxPlan + 1 of them
Ran(state, name) ==
  IF Len(state.ran) <= MaxPlan THEN Append(state.ran, name) ELSE state.ran

\* a tool agent that does not save its result
SaveResult_Dropped(results, name) == results

\* line 136: state["tool_results"][self.name] = result
SaveResult(results, name) == results \cup {name}

\* a tool agent that does not record itself as executed
MarkExecuted_Skipped(executed, name) == executed

\* line 139: state["agents_executed"].append(self.name)
MarkExecuted(executed, name) == Append(executed, name)

\* ToolAgent.execute (110-145) of the tool `name`, then the edge to analysis
\* (line 231); replyOk: the reply of the tool's LLM is a JSON object with
\* "tool" and "params"
ToolAgent_execute(state, name, replyOk) ==
  IF name \notin state.agent_tasks THEN Raise(state, name)    \* line 111: KeyError
  ELSE IF ~replyOk THEN Raise([state EXCEPT !.ran = Ran(state, name)], name)  \* 132, 133
  ELSE [state EXCEPT !.tool_results = SaveResult(@, name),
                     !.agents_executed = MarkExecuted(@, name),
                     !.next_agent = "analysis",
                     !.ran = Ran(state, name),
                     !.node = "analysis"]

\* a tool node runs
ToolExecute ==
  /\ graph.node \in ToolNames
  /\ \E replyOk \in BOOLEAN :
       graph' = ToolAgent_execute(graph, graph.node, replyOk)
  /\ UNCHANGED <<queue, watcherVars, corrected, enqueued, histVars, accVars,
                 prodVars, cliVars, nonGraphVars>>

GraphNext == AnalysisExecute \/ ToolExecute

GraphSpec == Init /\ [][GraphNext]_vars

\* the graph runtime runs the next node until the run has ended
GraphFairSpec == GraphSpec /\ WF_vars(GraphNext)

(***************************************************************************)
(* The notification ledger of notification_agent.py: each method of        *)
(* DatabaseManager is one transaction on a connection of its own.          *)
(***************************************************************************)
\* a history write that replaces the latest row of the notification
AddHistory_Overwrite(history, notification_id, status) ==
  IF \E i \in 1..Len(history) : history[i].notification_id = notification_id
    THEN LET last == CHOOSE i \in 1..Len(history) :
                       /\ history[i].notification_id = notification_id
                       /\ \A j \in (i + 1)..Len(history) :
                            history[j].notification_id # notification_id
         IN [history EXCEPT ![last].status = status]
    ELSE Append(history, [notification_id |-> notification_id, status |-> status])

\* lines 114-117, 139-142: INSERT INTO notification_history
AddHistory(history, notification_id, status) ==
  Append(history, [notification_id |-> notification_id, status |-> status])

\* save_notification (97-122): the new row gets the next id (lastrowid)
save_notification(l, status) ==
  LET notification_id == Len(l.notifications) + 1 IN
  [ notifications |-> Append(l.notifications,
                             [id |-> notification_id, status |-> status]),
    history |-> AddHistory(l.history, notification_id, status),
    updates |-> Append(l.updates, 0) ]

\* update_notification_status (124-145): the UPDATE changes the rows WHERE
\* id = notification_id, none when there is no such row, and the history row
\* is inserted either way
update_notification_status(l, notification_id, status) ==
  [ notifications |->
      [i \in DOMAIN l.notifications |->
         IF l.notifications[i].id = notification_id
           THEN [l.notifications[i] EXCEPT !.status = status]
           ELSE l.notifications[i]],
    history |-> AddHistory(l.history, notification_id, status),
    updates |->
      [i \in DOMAIN l.updates |->
         IF i = notification_id THEN l.updates[i] + 1 ELSE l.updates[i]] ]

\* a caller saves a notification
SaveNotification ==
  /\ Len(ledger.history) < MaxHistory
  /\ \E status \in Statuses : ledger' = save_notification(ledger, status)
  /\ UNCHANGED <<queue, watcherVars, corrected, enqueued, histVars, accVars,
                 prodVars, cliVars, nonLedgerVars>>

\* the ids save_notification has returned
SavedIds(l) == {l.notifications[i].id : i \in 1..Len(l.notifications)}

\* a caller updates the status of a notification: the send_* tools pass the
\* id that save_notification returned to them (246-266, 289-307, 333-351,
\* 372-390)
UpdateNotificationStatus ==
  /\ Len(ledger.history) < MaxHistory
  /\ \E notification_id \in SavedIds(ledger), status \in Statuses :
       ledger' = update_notification_status(ledger, notification_id, status)
  /\ UNCHANGED <<queue, watcherVars, corrected, enqueued, histVars, accVars,
                 prodVars, cliVars, nonLedgerVars>>

LedgerNext == SaveNotification \/ UpdateNotificationStatus

LedgerSpec == Init /\ [][LedgerNext]_vars

\* a direct caller of DatabaseManager updates the status of an id that no
\* notification has: the method takes any int, and the FOREIGN KEY of
\* notification_history (line 78) is not enforced on a connection that has
\* not executed PRAGMA foreign_keys = ON (sqlite3.connect, line 127)
UpdateUnknownId ==
  /\ Len(ledger.history) < MaxHistory
  /\ \E notification_id \in (1..(Len(ledger.notifications) + 1)) \ SavedIds(ledger),
        status \in Statuses :
       ledger' = update_notification_status(ledger, notification_id, status)
  /\ UNCHANGED <<queue, watcherVars, corrected, enqueued, histVars, accVars,
                 prodVars, cliVars, nonLedgerVars>>

LedgerApiNext == SaveNotification \/ UpdateNotificationStatus \/ UpdateUnknownId

\* DatabaseManager under any sequence of calls of its two writing methods
LedgerApiSpec == Init /\ [][LedgerApiNext]_vars

(***************************************************************************)
(* process_corrective_action of corrective_actions.py, step by step        *)
(***************************************************************************)
\* a handler that catches ValueError alone
Caught_ValueErrorOnly(exception) == exception = "ValueError"

\* line 74: `except Exception` catches every exception the body raises
Caught(exception) == TRUE

\* the body of process_corrective_action raised: lines 74-76 return False,
\* and an exception that is not caught leaves the function
Except(c, exception) ==
  IF Caught(exception)
    THEN [c EXCEPT !.pc = "done", !.result = "False"]
    ELSE [c EXCEPT !.pc = "done", !.raised = exception]

\* the caller calls process_corrective_action(data)
ProcessCall ==
  /\ call.pc \in {"idle", "done"}
  /\ \E data \in CallInputs, rows \in SUBSET ClassifierIds :
       call' = [NoCall EXCEPT !.pc = "extract", !.data = data, !.rows = rows]
  /\ UNCHANGED <<queue, watcherVars, corrected, enqueued, histVars, accVars,
                 prodVars, cliVars, nonCallVars>>

\* lines 53-57: data.get('payload_id') (AttributeError when data is no
\* dict), and ValueError when the id is missing or empty
ProcessExtract ==
  /\ call.pc = "extract"
  /\ call' =
       IF ~IsDict(call.data) THEN Except(call, "AttributeError")
       ELSE LET classifier_id == DictGet(call.data, "payload_id") IN
            IF ~Truthy(classifier_id)
              THEN Except([call EXCEPT !.classifier_id = classifier_id], "ValueError")
              ELSE [call EXCEPT !.classifier_id = classifier_id, !.pc = "rag"]
  /\ UNCHANGED <<queue, watcherVars, corrected, enqueued, histVars, accVars,
                 prodVars, cliVars, nonCallVars>>

\* line 64: get_corrective_action_from_rag (79-121) returns the text or
\* raises again what the vector search or the LLM raised
ProcessRag ==
  /\ call.pc = "rag"
  /\ \E ragOk \in BOOLEAN :
       call' = IF ragOk THEN [call EXCEPT !.ragQueried = TRUE, !.pc = "update"]
               ELSE Except([call EXCEPT !.ragQueried = TRUE], "RagError")
  /\ UNCHANGED <<queue, watcherVars, corrected, enqueued, histVars, accVars,
                 prodVars, cliVars, nonCallVars>>

\* line 148: cursor.rowcount is not 0
RowFound(c) == c.classifier_id.val \in c.rows

\* update_corrective_action_db (124-167) with the fault that strikes it:
\* connect raises (conn stays None), or the UPDATE runs, changing the rows
\* WHERE payload_id = ?, and then no row was found, commit raises, or commit
\* returns; every exception is rolled back (when there is a connection)
\* and raised again
update_corrective_action_db_steps(c, fault) ==
  IF fault = "connect" THEN Except(c, "sqlite3.Error")
  ELSE
    LET changed == {c.classifier_id.val} \cap c.rows
        open == [c EXCEPT !.dbOpened = TRUE, !.pending = changed]
        back == [open EXCEPT !.pending = {}, !.rolledBack = TRUE]
    IN IF ~RowFound(c) THEN Except(back, "ValueError")
       ELSE IF fault = "commit" THEN Except(back, "sqlite3.Error")
       ELSE [open EXCEPT !.pending = {}, !.committed = open.pending,
                         !.pc = "done", !.result = "True"]

\* line 69: update_corrective_action_db(classifier_id, corrective_action),
\* then `return True` (line 72)
ProcessUpdate ==
  /\ call.pc = "update"
  /\ \E fault \in {"none", "connect", "commit"} :
       call' = update_corrective_action_db_steps(call, fault)
  /\ UNCHANGED <<queue, watcherVars, corrected, enqueued, histVars, accVars,
                 prodVars, cliVars, nonCallVars>>

CallNext == ProcessCall \/ ProcessExtract \/ ProcessRag \/ ProcessUpdate

CallSpec == Init /\ [][CallNext]_vars

(***************************************************************************)
(* Properties                                                              *)
(***************************************************************************)
Registry == {"llm_invoke", "set_corrective_action"}

PyEq(a, b) == a.kind = b.kind /\ a.val = b.val

\* the value passed to the enqueue call that returned id
EnqueuedData(id) ==
  enqueued[CHOOSE i \in 1..Len(enqueued) : enqueued[i].id = id].data

HasTag(data, tag) ==
  IsDict(data) /\ HasKey(data, "task") /\ PyEq(GetItem(data, "task"), PyStr(tag))

Range(f) == {f[i] : i \in DOMAIN f}
IndexIn(f, x) == CHOOSE i \in DOMAIN f : f[i] = x

\* C1: the watcher drains the queue: under fair scheduling, with no
\* cancellation and every handler returning, every enqueued record is
\* eventually processed.
C1_WatcherDrains ==
  \A id \in UUIDs :
    (id \in Ids(queue)) ~> (id \in Ids(queue) /\ Status(queue, id) = "processed")

\* C2: once the watcher cycle that fetched a record with a tag outside the
\* handler registry has passed its dispatch, the record is processed and no
\* handler was invoked for it.
C2_UnknownTagDropped ==
  (pc = "sleep" /\ TaskReadable(message) /\ TaskOf(message) \notin Registry)
    => /\ Status(queue, message.id) = "processed"
       /\ \A h \in handlerCalls : h.id # message.id

\* C3: a handler exception never terminates the watcher.
C3_HandlerFailureIsolated == ~(pc = "terminated" /\ exc = "HandlerError")

\* C4: a payload that is not a task description (no readable 'task') never
\* terminates the watcher.
C4_MalformedPayloadDropped ==
  ~(pc = "terminated" /\ exc \in {"JSONDecodeError", "TypeError", "KeyError: 'task'"})

\* C5: the record the watcher is about to dispatch is pending and no older
\* record is pending; first dispatches follow insertion order.
C5_DispatchOrder ==
  /\ pc = "dispatch" =>
       /\ message.id \in Ids(queue)
       /\ Status(queue, message.id) = "pending"
       /\ \A i \in 1..(PosOf(queue, message.id) - 1) : queue[i].status # "pending"
  /\ \A i, j \in 1..Len(queue) :
       (i < j /\ queue[j].id \in Range(dispatchOrder)) =>
         /\ queue[i].id \in Range(dispatchOrder)
         /\ IndexIn(dispatchOrder, queue[i].id) < IndexIn(dispatchOrder, queue[j].id)

C5_Witness ==
  /\ pc = "dispatch"
  /\ Len(queue) = MaxTasks
  /\ Len(dispatchOrder) = MaxTasks - 1
  /\ message.id = queue[MaxTasks].id

\* C6: FIFO among pending.  With t1..tN enqueued first, the k-th call of
\* get_pending_message returns t1 when k = 1, the record after the previous
\* answer when that answer was marked processed, the previous answer again
\* when it was not, and None after the last record was marked.
FirstId == IF queue = <<>> THEN 0 ELSE queue[1].id

NextId(id) ==
  IF PosOf(queue, id) = Len(queue) THEN 0 ELSE queue[PosOf(queue, id) + 1].id

FifoExpected(k) ==
  IF k = 1 THEN FirstId
  ELSE IF got[k - 1] = 0 THEN 0
  ELSE IF (k - 1) \in ackedAt THEN NextId(got[k - 1])
  ELSE got[k - 1]

C6_FifoAmongPending == \A k \in 1..Len(got) : got[k] = FifoExpected(k)

C6_Witness ==
  /\ Len(queue) = MaxTasks
  /\ Len(got) = MaxTasks + 2
  /\ got[Len(got)] = 0
  /\ Cardinality(ackedAt) = MaxTasks

\* C7: an llm_invoke record whose handling was interrupted is still pending,
\* and the restarted watcher fetches it and hands it to the handler again.
C7_AtLeastOnce ==
  interrupted # 0 =>
    /\ Status(queue, interrupted) = "pending"
    /\ pc \in {"stopped", "poll", "dispatch", "llm_handling"}
    /\ pc = "dispatch" => message.id = interrupted
    /\ pc = "llm_handling" => running.id = interrupted

C7_Witness ==
  /\ interrupted # 0
  /\ pc = "llm_handling"
  /\ dispatchCount[interrupted] = 2

\* C8: while process_corrective_action runs for a record the record is
\* already processed and the argument is the data sub-payload that was
\* enqueued; a set_corrective_action record is dispatched at most once and is
\* processed from then on, whatever the handler's outcome.
C8_AckBeforeExecute ==
  /\ pc = "ca_handling" =>
       /\ Status(queue, running.id) = "processed"
       /\ PyEq(running.arg, GetItem(EnqueuedData(running.id), "data"))
  /\ \A i \in 1..Len(enqueued) :
       HasTag(enqueued[i].data, "set_corrective_action") =>
         /\ dispatchCount[enqueued[i].id] <= 1
         /\ dispatchCount[enqueued[i].id] = 1 =>
              Status(queue, enqueued[i].id) = "processed"

\* the handler has failed (RAG error or no matching row) for the X1 task and
\* the watcher went on
C8_Witness ==
  /\ pc = "poll"
  /\ message.found
  /\ HasTag(message.data, "set_corrective_action")
  /\ PyEq(GetItem(message.data, "data"), PayloadX1)
  /\ corrected = {}
  /\ Status(queue, message.id) = "processed"
  /\ Len(queue) = MaxTasks

\* C9: every status is pending or processed, and a processed record stays
\* processed in every step.
C9_StatusMonotonic ==
  [][ /\ \A i \in 1..Len(queue) : queue[i].status \in {"pending", "processed"}
      /\ \A id \in Ids(queue) :
           Status(queue, id) = "processed" =>
             (id \in Ids(queue') /\ Status(queue', id) = "processed") ]_vars

\* one record marked by the watcher's branch, another by a direct call before
\* the watcher ever dispatched it, a third still pending
C9_Witness ==
  /\ pc = "ca_handling"
  /\ \E i \in 1..Len(queue) :
       queue[i].status = "processed" /\ dispatchCount[queue[i].id] = 0
  /\ \E i \in 1..Len(queue) : queue[i].status = "pending"

\* C10: every id an enqueue call returned is the id of a row of the table.
C10_NoRecordDeleted ==
  \A i \in 1..Len(enqueued) : enqueued[i].id \in Ids(queue)

C10_Witness ==
  /\ Len(enqueued) = MaxTasks
  /\ \A i \in 1..Len(queue) : queue[i].status = "processed"
  /\ pc = "idle_sleep"

\* C11: a storage error in the fetch or in the mark-processed of a watcher
\* cycle does not terminate the watcher: watch_queue is never left with the
\* store's error.
C11_StorageErrorSurvived == ~(pc = "terminated" /\ exc = "StorageError")

\* C12: at most one handler invocation is in progress, and while one is the
\* watcher is at the await or call of that handler, holding the message it
\* fetched for it: it is not polling, dispatching or sleeping, so it fetches
\* no other record before the handler has completed.
C12_OneHandlerAtATime ==
  running # NoHandler =>
    /\ pc \in {"llm_handling", "ca_handling"}
    /\ message.found /\ message.id = running.id
    /\ pc = "llm_handling" <=> running.handler = "Transporter.process"
    /\ pc = "ca_handling" <=> running.handler = "process_corrective_action"

\* Transporter.process is being awaited for the oldest record while a second
\* record is pending behind it
C12_Witness ==
  /\ pc = "llm_handling"
  /\ running.handler = "Transporter.process"
  /\ \E i \in PendingIdx(queue) : queue[i].id # running.id

\* C13: a thread whose INSERT of SQLiteQueue.enqueue is in progress holds
\* the queue's lock, and no two threads have their INSERT in progress at the
\* same time.
C13_InsertUnderLock ==
  /\ \A t \in Threads : thPc[t] = "insert" => lock = t
  /\ \A t1, t2 \in Threads :
       thPc[t1] = "insert" /\ thPc[t2] = "insert" => t1 = t2

Distinct(f) == \A i, j \in DOMAIN f : f[i] = f[j] => i = j

\* C14: the ids returned by distinct enqueue calls are pairwise different,
\* each is the id of a record, and no two records of the table share an id.
C14_IdsUnique ==
  /\ Distinct([i \in 1..Len(enqueued) |-> enqueued[i].id])
  /\ Distinct([i \in 1..Len(queue) |-> queue[i].id])
  /\ \A i \in 1..Len(enqueued) : enqueued[i].id \in Ids(queue)

\* every thread is inside enqueue at the same time, its row inserted and its
\* id not yet returned, after an earlier call has returned its id
C14_Witness ==
  /\ Len(enqueued) >= 1
  /\ \A t \in Threads : thPc[t] = "return"

LastRow(q) == q[Len(q)]

\* C15: every enqueue call whose INSERT succeeded has exactly one record,
\* under the id it returns and with the JSON text of its argument as payload
\* (K such calls, K records); the step that adds a record adds one pending
\* row for the calling thread's item_id and argument and leaves the id,
\* payload and status of every existing record as they were.
C15_EnqueueEffect ==
  /\ [] /\ Len(queue) = Len(enqueued) + Cardinality({t \in Threads : thPc[t] = "return"})
        /\ \A i \in 1..Len(enqueued) :
             /\ enqueued[i].id \in Ids(queue)
             /\ RowOf(queue, enqueued[i].id).data = json_dumps(enqueued[i].data)
             /\ json_loads(RowOf(queue, enqueued[i].id).data).ok
             /\ json_loads(RowOf(queue, enqueued[i].id).data).val = enqueued[i].data
  /\ [][ Len(queue') # Len(queue) =>
           /\ Len(queue') = Len(queue) + 1
           /\ \A i \in 1..Len(queue) : queue'[i] = queue[i]
           /\ LastRow(queue').status = "pending"
           /\ \E t \in Threads :
                /\ thPc[t] = "insert" /\ thPc'[t] = "return"
                /\ LastRow(queue').id = thItem[t].id
                /\ LastRow(queue').data = json_dumps(thItem[t].data) ]_vars

\* MaxTasks calls have returned, not in the order of their inserts, and
\* mark_message_processed has run on some record
C15_Witness ==
  /\ Len(enqueued) = MaxTasks
  /\ thResult.id = enqueued[MaxTasks].id
  /\ \E i, j \in 1..Len(queue) :
       queue[i].status = "processed" /\ queue[j].status = "pending"
  /\ \E i \in 1..Len(queue) : queue[i].id # enqueued[i].id

\* the ids of the enqueue calls whose INSERT failed
FailedIds == issued \ (Ids(queue) \cup {thItem[t].id : t \in Threads})

\* C16: a call of enqueue whose INSERT fails raises and returns no id, and
\* the step leaves the table as it was; the id of a failed call is the id of
\* no record and was returned to no caller.
C16_FailedEnqueueNoTrace ==
  /\ [] \A id \in FailedIds :
          /\ \A i \in 1..Len(enqueued) : enqueued[i].id # id
          /\ thResult.id # id
  /\ [][ \A t \in Threads :
           thPc[t] = "insert" /\ thPc'[t] = "idle" =>
             /\ thResult'.thread = t
             /\ thResult'.raised
             /\ thResult'.id = 0
             /\ queue' = queue
             /\ enqueued' = enqueued ]_vars

\* a call has just failed while the table holds a processed record and
\* another thread is at its INSERT
C16_Witness ==
  /\ thResult.raised
  /\ \E t \in Threads : t # thResult.thread /\ thPc[t] = "insert"
  /\ FailedIds # {}
  /\ \E i \in 1..Len(queue) : queue[i].status = "processed"

RECURSIVE SumOver(_, _)
\* the sum of f over the set S of its arguments
SumOver(f, S) ==
  IF S = {} THEN 0
  ELSE LET x == CHOOSE y \in S : TRUE IN f[x] + SumOver(f, S \ {x})

\* the records of q that hold status s
Holding(q, s) == SelectSeq(q, LAMBDA r : r.status = s)

\* C17: the dict get_stats returned has, for every status, the number of
\* records holding it when at least one does and no key when none does; its
\* counts add up to the number of records.
C17_StatsConsistent ==
  stats.valid =>
    /\ \A s \in {"pending", "processed"} :
         IF Holding(queue, s) = <<>>
         THEN s \notin DOMAIN stats.counts
         ELSE s \in DOMAIN stats.counts /\ stats.counts[s] = Len(Holding(queue, s))
    /\ DOMAIN stats.counts \subseteq {"pending", "processed"}
    /\ SumOver(stats.counts, DOMAIN stats.counts) = Len(queue)

\* five records enqueued, two of them marked processed: get_stats has returned
\* {pending: 3, processed: 2}
C17_Witness ==
  /\ Len(queue) = 5
  /\ stats.valid
  /\ DOMAIN stats.counts = {"pending", "processed"}
  /\ stats.counts["pending"] = 3
  /\ stats.counts["processed"] = 2

\* C18: a record on which mark_message_processed has been called is
\* processed, however often it was called; the second call on an id returns
\* and leaves the whole table, that record and every other, as it was.
C18_MarkIdempotent ==
  /\ [] \A id \in Ids(queue) : markCount[id] >= 1 => Status(queue, id) = "processed"
  /\ [][ \A id \in UUIDs :
           markCount[id] = 1 /\ markCount'[id] = 2 =>
             /\ queue' = queue
             /\ Status(queue', id) = "processed" ]_vars

\* one record marked twice, one marked once, one still pending
C18_Witness ==
  /\ \E id \in Ids(queue) : markCount[id] = 2 /\ Status(queue, id) = "processed"
  /\ \E id \in Ids(queue) : markCount[id] = 1
  /\ \E id \in Ids(queue) : Status(queue, id) = "pending"

\* the functions watch_queue itself calls for a recognized tag (lines 59, 65)
WatcherCallees == {"Transporter.process", "handle_message"}

\* the 'data' sub-payload of the payload enqueued under id
EnqueuedSubData(id) == GetItem(EnqueuedData(id), "data")

IdleFrame ==
  /\ queue' = queue
  /\ handlerCalls' = handlerCalls
  /\ dispatchCount' = dispatchCount
  /\ running' = NoHandler
  /\ corrected' = corrected
  /\ exc' = "none"

\* C20: the poll of a watcher cycle that finds no pending record goes to the
\* sleep of lines 53-54, and the sleep goes back to the poll; neither step
\* calls a handler, marks a record or changes the table, and neither ends
\* the watcher.  A sleeping watcher polls again.
C20_IdlePollingInert ==
  /\ [][ /\ (pc = "poll" /\ PendingIdx(queue) = {} /\ pc' # pc) =>
             (pc' = "idle_sleep" /\ ~message'.found /\ IdleFrame)
         /\ (pc = "idle_sleep" /\ pc' # pc) =>
             (pc' = "poll" /\ ~message'.found /\ IdleFrame) ]_vars
  /\ (pc = "idle_sleep") ~> (pc = "poll")

\* an idle cycle has been completed after the queue was drained: every
\* record is processed and the watcher is back at the poll with no message
C20_Witness ==
  /\ pc = "poll"
  /\ ~message.found
  /\ Len(queue) = MaxTasks
  /\ \A i \in 1..Len(queue) : queue[i].status = "processed"

\* C21: once join() has returned, every task description of the batch has an
\* outcome: a record of its own in the table, holding its JSON text, or a
\* recorded failure.  The step that inserts a record inserts it pending, and
\* no record is inserted after join() has returned.
C21_JoinWaitsForBatch ==
  /\ [] (batch.caller = "returned" =>
          /\ Len(batch.outcomes) = Len(batch.tasks)
          /\ \A i \in 1..Len(batch.tasks) :
               batch.outcomes[i].ok =>
                 /\ batch.outcomes[i].id \in Ids(queue)
                 /\ RowOf(queue, batch.outcomes[i].id).data = json_dumps(batch.tasks[i])
          /\ Distinct([i \in {j \in 1..Len(batch.outcomes) : batch.outcomes[j].ok}
                         |-> batch.outcomes[i].id]))
  /\ [][ /\ Len(queue') # Len(queue) =>
             (Len(queue') = Len(queue) + 1 /\ LastRow(queue').status = "pending")
         /\ batch.caller = "returned" => Len(queue') = Len(queue) ]_vars

\* join() has returned for a batch of MaxTasks task descriptions of which one
\* failed and one is still pending
C21_Witness ==
  /\ batch.caller = "returned"
  /\ Len(batch.tasks) = MaxTasks
  /\ \E i \in 1..MaxTasks : ~batch.outcomes[i].ok
  /\ \E i \in 1..MaxTasks :
       batch.outcomes[i].ok /\ Status(queue, batch.outcomes[i].id) = "pending"

\* C22: a failure for one task description does not end the batch: the thread
\* ends only after it has attempted every task description, and nothing is
\* raised in the caller of start() and join().
C22_SiblingsIndependent ==
  /\ batch.thread = "finished" => Len(batch.outcomes) = Len(batch.tasks)
  /\ batch.caller # "raised"

\* the first task description of the batch failed, a later one was enqueued,
\* and join() has returned
C22_Witness ==
  /\ batch.caller = "returned"
  /\ Len(batch.tasks) >= 2
  /\ ~batch.outcomes[1].ok
  /\ \E i \in 2..Len(batch.tasks) : batch.outcomes[i].ok


(***************************************************************************)
(* Properties of the multi-agent graph                                     *)
(***************************************************************************)
\* the analysis reply named a non-empty list of configured tools with a task
\* for each of them
GoodPlan(state) ==
  /\ state.analysis_complete
  /\ state.agents_to_execute # <<>>
  /\ Elems(state.agents_to_execute) \subseteq ToolNames
  /\ Elems(state.agents_to_execute) \subseteq state.agent_tasks

\* a run alternates: a tool node is followed by analysis, analysis by a tool
\* node or by the end of the run
Alternates ==
  /\ graph.node \in ToolNames => graph'.node \in {"analysis", "raised"}
  /\ graph.node = "analysis" => graph'.node \in ToolNames \cup {"END", "raised"}
  /\ graph.node \in {"END", "raised"} => graph' = graph

\* the tool nodes executed are no more than the distinct agents of the plan
ToolRunsBounded ==
  GoodPlan(graph) => Len(graph.ran) <= Cardinality(Elems(graph.agents_to_execute))

\* C23 as stated: with a non-empty plan of configured tools that have their
\* tasks, the run reaches END
C23_ReachesEnd == GoodPlan(graph) ~> graph.node = "END"

\* C23: with a non-empty plan of configured tools that have their tasks, the
\* run alternates analysis and tool nodes, executes no more tool nodes than
\* the plan has distinct agents, and after finitely many steps reaches END
\* or ends with the exception a tool node raised
C23_NoRoutingLoop ==
  /\ [][Alternates]_vars
  /\ []ToolRunsBounded
  /\ GoodPlan(graph) ~>
       (\/ graph.node = "END"
        \/ graph.node = "raised" /\ graph.error \in ToolNames)

\* a plan of three with a repeated agent has reached END after two tool nodes
C23_Witness ==
  /\ GoodPlan(graph)
  /\ graph.node = "END"
  /\ Len(graph.agents_to_execute) = 3
  /\ Len(graph.ran) = 2

\* C24: once analysis_complete is true no analysis execution plans again:
\* analysis_complete stays true, agents_to_execute and agent_tasks keep their
\* values, and agents_executed only grows at its end
C24_AnalysisRunsOnce ==
  [][graph.analysis_complete =>
       /\ graph'.analysis_complete
       /\ graph'.agents_to_execute = graph.agents_to_execute
       /\ graph'.agent_tasks = graph.agent_tasks
       /\ Len(graph'.agents_executed) >= Len(graph.agents_executed)
       /\ SubSeq(graph'.agents_executed, 1, Len(graph.agents_executed))
            = graph.agents_executed]_vars

\* the analysis node has run again after the first tool and routed to the next
C24_Witness ==
  /\ graph.analysis_complete
  /\ Len(graph.agents_executed) = 1
  /\ graph.node \in ToolNames
  /\ graph.node # graph.agents_executed[1]

(***************************************************************************)
(* Properties of the notification ledger                                   *)
(***************************************************************************)
\* the history rows of a notification, oldest first
HistoryOf(l, notification_id) ==
  SelectSeq(l.history, LAMBDA h : h.notification_id = notification_id)

\* the step appended one history row and left the rows before it as they were
AppendsOneRow ==
  /\ Len(ledger'.history) = Len(ledger.history) + 1
  /\ SubSeq(ledger'.history, 1, Len(ledger.history)) = ledger.history

\* the appended row carries the status its notification now has
NewRowHasStatus ==
  LET row == ledger'.history[Len(ledger'.history)] IN
  \A i \in 1..Len(ledger'.notifications) :
    ledger'.notifications[i].id = row.notification_id
      => ledger'.notifications[i].status = row.status

C26_AtMostOneDispatch ==
  \A id \in Ids(queue) : dispatchCount[id] <= 1

\* the steps of the watcher: every step of a run that is no enqueue
IsWatcherStep == enqueued' = enqueued

\* C27: every row keeps the id and the JSON text it was inserted with, in
\* every state; a step of the watcher adds and removes no row and changes at
\* most the status of the record the cycle fetched, to processed
C27_MarkFrame ==
  /\ [](/\ Len(queue) = Len(enqueued)
        /\ \A i \in 1..Len(queue) :
             /\ queue[i].id = enqueued[i].id
             /\ queue[i].data = json_dumps(enqueued[i].data))
  /\ [][IsWatcherStep =>
          /\ Len(queue') = Len(queue)
          /\ \A i \in 1..Len(queue) :
               queue'[i].status # queue[i].status =>
                 /\ pc = "dispatch"
                 /\ message.found
                 /\ message.id = queue[i].id
                 /\ queue'[i].status = "processed"]_vars

\* the watcher has marked the second record in this cycle; the first was
\* marked in an earlier cycle and the third is pending
C27_Witness ==
  /\ Len(queue) = 3
  /\ queue[1].status = "processed"
  /\ queue[2].status = "processed"
  /\ queue[3].status = "pending"
  /\ pc = "ca_handling"
  /\ running.id = queue[2].id

(***************************************************************************)
(* The plan of the multi-agent graph and its execution                     *)
(***************************************************************************)
RECURSIVE FirstOccurrences(_)
\* the distinct elements of a list in the order of their first occurrence
FirstOccurrences(seq) ==
  IF seq = <<>> THEN <<>>
  ELSE LET front == FirstOccurrences(SubSeq(seq, 1, Len(seq) - 1))
           last == seq[Len(seq)]
       IN IF last \in Elems(front) THEN front ELSE Append(front, last)

\* C28 as stated: in every run each distinct agent of agents_to_execute is
\* executed exactly once, in the order of first occurrence, and no other
C28_EveryAgentRuns ==
  graph.analysis_complete
    ~> graph.ran = FirstOccurrences(graph.agents_to_execute)

\* C28: the tool nodes executed are, in this order, the first distinct
\* agents of agents_to_execute: none runs twice, out of plan order or from
\* outside the plan; when the run has reached END they are all of them
C28_RunOnceInPlanOrder ==
  LET planned == FirstOccurrences(graph.agents_to_execute) IN
  /\ Len(graph.ran) <= Len(planned)
  /\ graph.ran = SubSeq(planned, 1, Len(graph.ran))
  /\ graph.node = "END" => graph.ran = planned

\* slack, then jira, have run for a plan that names slack again after jira
C28_Witness ==
  /\ graph.node = "END"
  /\ graph.agents_to_execute = <<"slack", "jira", "slack">>
  /\ graph.ran = <<"slack", "jira">>

\* C29: next_agent is "end" with final_response "All tasks completed
\* successfully." only if every agent of agents_to_execute is in
\* agents_executed and has its entry in tool_results
C29_CompletionOnlyWhenDone ==
  (/\ graph.next_agent = "end"
   /\ graph.final_response = "All tasks completed successfully.")
    => \A a \in Elems(graph.agents_to_execute) :
         /\ a \in Elems(graph.agents_executed)
         /\ a \in graph.tool_results

\* completion has been reported for a plan of the three tools
C29_Witness ==
  /\ graph.next_agent = "end"
  /\ graph.final_response = "All tasks completed successfully."
  /\ Elems(graph.agents_to_execute) = ToolNames
  /\ graph.tool_results = ToolNames

(***************************************************************************)
(* Properties of process_corrective_action                                 *)
(***************************************************************************)
\* C30: process_corrective_action raises nothing; it has returned True
\* exactly when the row with the payload_id was updated and committed, and
\* False otherwise; with a missing or empty payload_id it returns False
\* without a RAG query and without opening the database; with no row for
\* the payload_id the update is rolled back and no row is changed
C30_NeverRaises ==
  /\ call.raised = "none"
  /\ call.pending \subseteq call.rows
  /\ call.committed \subseteq call.rows
  /\ call.pc = "done" =>
       /\ call.result \in {"True", "False"}
       /\ call.result = "True" <=>
            (IsDict(call.data) /\ call.committed = {call.classifier_id.val})
       /\ call.result = "False" => call.committed = {}
       /\ call.pending = {}
       /\ (IsDict(call.data) /\ ~Truthy(DictGet(call.data, "payload_id"))) =>
            /\ call.result = "False"
            /\ ~call.ragQueried
            /\ ~call.dbOpened
       /\ (call.dbOpened /\ call.classifier_id.val \notin call.rows) =>
            /\ call.rolledBack
            /\ call.result = "False"
       /\ call.result = "True" =>
            process_corrective_action(call.data, TRUE, call.rows, {}).result

\* the call for X2 found no row for it among the rows of the table, rolled
\* back and returned False
C30_Witness ==
  /\ call.pc = "done"
  /\ call.classifier_id = PyStr("X2")
  /\ call.rows = {"X1"}
  /\ call.ragQueried
  /\ call.rolledBack
  /\ call.result = "False"

\* C31 as stated: after any sequence of save_notification and
\* update_notification_status calls, unknown ids included, the
\* notification_id of every history row is the id of a notification
C31_HistoryReferencesNotification ==
  \A i \in 1..Len(ledger.history) :
    ledger.history[i].notification_id \in SavedIds(ledger)

(***************************************************************************)
(* Properties of the approval dialog                                       *)
(***************************************************************************)
\* the enqueue calls that have returned since the button was pressed
EnqueuedByDialog == SubSeq(enqueued, approval.before + 1, Len(enqueued))

\* an llm_invoke task of a record is in the queue only when the approval of
\* that record has been stored, and an update that raised enqueues nothing
ApprovalPrecedes ==
  /\ \A i \in 1..Len(enqueued) :
       \E record \in approval.stored : enqueued[i].data = ApprovalTask(record)
  /\ approval.pc \in {"update", "prepare"} => EnqueuedByDialog = <<>>
  /\ (approval.error /\ approval.at = "update") =>
       /\ EnqueuedByDialog = <<>>
       /\ batch = NoBatch

\* the dialog has returned with its try block through
DialogSucceeded == approval.pc = "returned" /\ ~approval.error

====
